---- MODULE Spec2Model ----
(***************************************************************************)
(* A model of GenCFD's training-state engine (train/trainers.py) and of    *)
(* its convolution operators (model/building_blocks/layers/                *)
(* convolutions.py).                                                       *)
(*                                                                         *)
(* The specifications of the module:                                       *)
(*   Spec           the DenoisingTrainer: train, train_step,               *)
(*                  update_train_state, inference_fn_from_state_dict       *)
(*   SpecEval       the DenoisingTrainer: eval and eval_step between       *)
(*                  train calls                                            *)
(*   SpecConstruct  the constructors of the three trainers                 *)
(*   SpecDownsample DownsampleConv.forward                                 *)
(*   SpecLatLon     LatLonConv.forward                                     *)
(*   SpecLocal      ConvLocal2d.forward                                    *)
(* Each one moves its own variables and leaves the others alone.           *)
(***************************************************************************)
EXTENDS Integers, Sequences, FiniteSets, TLC

VARIABLES
    \* ---- DenoisingTrainer (trainers.py) ----
    use_mixed_precision,  \* constructor argument
    ema_decay,            \* constructor argument, <<numerator, denominator>>
    track_memory,         \* constructor argument
    tensors,              \* the live tensors: denoiser parameters, optimizer buffers
    ema_model,            \* the EMA model object every training state refers to
    scaler,               \* the GradScaler, or None
    training,             \* the denoiser's train()/eval() mode flag
    train_state,          \* trainer.train_state
    returned_state,       \* what the last update_train_state call returned
    last_metrics,         \* what the last train_step call returned
    step_calls,           \* history: number of train_step calls that returned
    p_hist,               \* history: live parameters after each train_step
    last_finite,          \* history: were the last train_step's gradients finite
    held_before,          \* history: values read through train_state on entry to
    held_after,           \*   the last update_train_state call, and on its exit
    init_view,            \* history: values train_state held when it was created
    returned_view,        \* history: values returned_state held when created
    \* ---- BaseTrainer.train ----
    train_pc,             \* "idle", "loop" (at the for), "batch" (batch pulled)
    num_steps,            \* argument of the running train call
    loop_i,               \* the for loop's step
    iter_left,            \* batches the iterator still yields
    train_metrics,        \* the accumulators of the running train call
    train_result,         \* accumulators the last train call returned
    train_outcome,        \* "none", "returned", "StopIteration"
    pulls,                \* history: next(batch_iter) calls of this train call
    steps_in_call,        \* history: train_step calls of this train call
    train_calls,          \* history: train calls entered so far
    \* ---- inference_fn_from_state_dict ----
    inf_denoiser,         \* the denoiser handed to inference_fn_from_state_dict
    inf_outcome,          \* "none", "inference_fn", "ValueError"
    inf_args,             \* history: the last call's use_ema and state.ema_model
    \* ---- BaseTrainer.eval ----
    eval_pc,              \* "idle", "loop" (at the for), "batch" (batch pulled)
    eval_n,               \* argument num_steps of the running eval call
    eval_i,               \* iterations of the for loop done
    eval_left,            \* batches the iterator still yields
    eval_metrics,         \* updates folded into the running call's accumulators
    eval_outcome,         \* "none", "returned", "StopIteration", "step"
    eval_pre,             \* history: what the trainer held on entry to the call
    \* ---- the trainers' constructors ----
    ct_variant,           \* the class constructed: "Basic", "Distributed", "Denoising"
    ct_args,              \* the constructor's arguments
    ct_stack,             \* the __init__ frames: <<class, statements done>>
    ct_fields,            \* the attributes set on self so far
    ct_train_state,       \* self.train_state, or None
    ct_init_calls,        \* history: initialize_train_state calls
    ct_outcome,           \* "none", "constructed", "AttributeError"
    \* ---- DownsampleConv ----
    ds_ratios,            \* constructor argument ratios
    ds_channels,          \* constructor arguments <<in_channels, out_channels>>
    ds_shape,             \* inputs.shape of the last forward call
    ds_outcome,           \* "none", "ok", or the error the call raised
    ds_out_shape,         \* shape of the tensor the call returned
    \* ---- LatLonConv ----
    ll_order,             \* constructor argument order
    ll_kernel,            \* constructor argument kernel_size
    ll_strides,           \* constructor argument strides
    ll_use_local,         \* constructor argument use_local
    ll_built,             \* "Conv2d", "ConvLocal2d", or the constructor's error
    ll_input,             \* the last forward call's input: rank, last two axes
    ll_outcome,           \* "none", "ok", or the error the call raised
    ll_padded,            \* the padded tensor handed to self.conv
    ll_out_shape,         \* spatial shape of the tensor the call returned
    \* ---- ConvLocal2d ----
    cl_kernel,            \* self.kernel_size, a pair
    cl_stride,            \* self.stride, a pair
    cl_padding,           \* self.padding
    cl_weights,           \* self.weights: None, or its shape and initial values
    cl_rng,               \* draws made from the generator self.rng
    cl_allocs,            \* history: weight tensors allocated
    cl_first_shape,       \* history: x.shape of the call that allocated
    cl_last_shape,        \* x.shape of the last forward call
    cl_outcome,           \* "none", "ok", or the error the last call raised
    cl_out_shape,         \* shape of the tensor the last call returned
    cl_used,              \* the weights the last returned output was made with
    cl_calls,             \* history: forward calls
    cl_ok_calls           \* history: forward calls that returned an output

trainerVars == <<use_mixed_precision, ema_decay, track_memory, tensors, ema_model,
                 scaler, training, train_state, returned_state, last_metrics,
                 step_calls, p_hist, last_finite, held_before, held_after,
                 init_view, returned_view,
                 train_pc, num_steps, loop_i, iter_left, train_metrics,
                 train_result, train_outcome, pulls, steps_in_call,
                 train_calls, inf_denoiser, inf_outcome, inf_args,
                 eval_pc, eval_n, eval_i, eval_left, eval_metrics, eval_outcome,
                 eval_pre,
                 ct_variant, ct_args, ct_stack, ct_fields, ct_train_state,
                 ct_init_calls, ct_outcome>>

ctVars == <<ct_variant, ct_args, ct_stack, ct_fields, ct_train_state,
            ct_init_calls, ct_outcome>>

dsVars == <<ds_ratios, ds_channels, ds_shape, ds_outcome, ds_out_shape>>

llVars == <<ll_order, ll_kernel, ll_strides, ll_use_local, ll_built, ll_input,
            ll_outcome, ll_padded, ll_out_shape>>

clVars == <<cl_kernel, cl_stride, cl_padding, cl_weights, cl_rng, cl_allocs,
            cl_first_shape, cl_last_shape, cl_outcome, cl_out_shape, cl_used,
            cl_calls, cl_ok_calls>>

vars == <<trainerVars, dsVars, llVars, clVars>>

(***************************************************************************)
(* Bounds of the model.                                                    *)
(***************************************************************************)
\* train_step calls in one behaviour
MaxCalls == 3

\* largest num_steps handed to train, and longest batch iterator
MaxNumSteps == 2

\* train calls in one behaviour
MaxTrainCalls == 2

----------------------------------------------------------------------------
(***************************************************************************)
(* Values.                                                                 *)
(***************************************************************************)
None == [none |-> TRUE]

\* the parameter names of the denoiser (the keys of its state_dict)
Keys == {"w", "b"}

\* the gradients a batch may give the parameters, and the loss it may give
Grads == {[w |-> 1, b |-> -1], [w |-> -1, b |-> 2]}

Losses == {1, 2}

\* ema_decay as a fraction: 0.9 (spec.md's end-to-end test) and 1/2
Decays == {<<9, 10>>, <<1, 2>>}

InitParams == [k \in Keys |-> IF k = "w" THEN 2 ELSE -1]

RECURSIVE Pow(_, _)
Pow(b, e) == IF e = 0 THEN 1 ELSE b * Pow(b, e - 1)

----------------------------------------------------------------------------
(***************************************************************************)
(* The collaborators of the trainer.                                       *)
(***************************************************************************)
\* Module.state_dict() and Optimizer.state_dict(): a mapping whose tensors are
\* the live tensors themselves (a shallow copy: references, no clone)
StateDict(cell) == [alias |-> TRUE, cell |-> cell]

\* the value read through a stored state_dict, the live tensors being t
Stored(ref, t) == IF ref.alias THEN t[ref.cell] ELSE ref.val

\* optimizer.step(): updates the parameters and the optimizer's buffers in place
OptimizerStep(t, g) ==
    [param |-> [k \in Keys |-> t.param[k] - g[k]],
     opt   |-> [k \in Keys |-> t.opt[k] + g[k]]]

\* GradScaler defaults: init_scale 2^16, backoff_factor 1/2, growth_factor 2,
\* growth_interval 2000
InitScale == 65536

BackoffDivisor == 2

GrowthFactor == 2

GrowthInterval == 2000

NewGradScaler == [scale |-> InitScale, growth_tracker |-> 0]

\* scaler.step(optimizer): unscales the gradients; optimizer.step() runs only
\* when none of them is inf or nan
ScalerStepAlways(t, g, finite) == OptimizerStep(t, g)

ScalerStep(t, g, finite) == IF finite THEN OptimizerStep(t, g) ELSE t

\* scaler.update(): backs the scale off after an overflow, grows it after
\* growth_interval consecutive finite steps
ScalerUpdate(s, finite) ==
    IF ~finite
    THEN [scale |-> s.scale \div BackoffDivisor, growth_tracker |-> 0]
    ELSE IF s.growth_tracker + 1 = GrowthInterval
         THEN [scale |-> s.scale * GrowthFactor, growth_tracker |-> 0]
         ELSE [scale |-> s.scale, growth_tracker |-> s.growth_tracker + 1]

(***************************************************************************)
(* train_states (not among the sources): the training state and its EMA    *)
(* model, after spec.md.  An EMA value is the fraction num / den^n, den    *)
(* the denominator of ema_decay and n the number of updates so far.        *)
(***************************************************************************)
\* ema = decay * ema + (1 - decay) * params, key-wise, in place
UpdateParameters(e, p, d) ==
    [num |-> [k \in Keys |-> d[1] * e.num[k] + (d[2] - d[1]) * Pow(d[2], e.n) * p[k]],
     n   |-> e.n + 1]

\* the EMA model starts as a copy of the parameters
NewEmaModel(p) == [num |-> p, n |-> 0]

\* state.ema_parameters: the tensors of the state's EMA model
EmaParameters(st) ==
    IF st.ema_model = None THEN None ELSE [alias |-> TRUE, cell |-> "ema"]

\* DenoisingModelTrainState(...)
NewTrainState(params, opt_state, step, decay) ==
    [step |-> step, params |-> params, opt_state |-> opt_state,
     ema |-> [alias |-> TRUE, cell |-> "ema"],
     ema_model |-> [obj |-> "ema_model"], ema_decay |-> decay]

\* state.replace(step=, opt_state=, params=, ema=): a new state, the old one
\* left as it was
Replace(st, step, opt_state, params, ema) ==
    [st EXCEPT !.step = step, !.opt_state = opt_state, !.params = params,
               !.ema = ema]

\* two EMA values are the same number
EmaEq(x, y) ==
    \A k \in Keys : x.num[k] * Pow(x.den, y.n) = y.num[k] * Pow(y.den, x.n)

\* what reading every field of state st gives, the live tensors being t and
\* the EMA model e
View(st, t, e) ==
    [step      |-> st.step,
     params    |-> Stored(st.params, t),
     opt_state |-> Stored(st.opt_state, t),
     ema       |-> IF st.ema = None THEN None
                   ELSE [num |-> e.num, n |-> e.n, den |-> st.ema_decay[2]]]

SameView(v1, v2) ==
    /\ v1.step = v2.step
    /\ v1.params = v2.params
    /\ v1.opt_state = v2.opt_state
    /\ (v1.ema = None) = (v2.ema = None)
    /\ v1.ema # None => EmaEq(v1.ema, v2.ema)

(***************************************************************************)
(* DenoisingTrainer                                                        *)
(***************************************************************************)
\* initialize_train_state
InitializeTrainState(decay) ==
    NewTrainState(StateDict("param"), StateDict("opt"), 0, decay)

\* update_train_state's return value; the EMA model is updated in place
\* before it (UpdateParameters, in the train_step actions)
UpdateTrainState(st) ==
    Replace(st, st.step + 1, StateDict("opt"), StateDict("param"),
            EmaParameters(st))

\* train_step calls update_train_state as a statement: the state it returns
\* is dropped and trainer.train_state stays the object it was
HeldAfterUpdate(held, returned) == held

\* update_train_state runs after the optimizer step and reads the live
\* denoiser: the EMA is fed the parameters as they are after the step
EmaSourcePreStep(before, after) == before

EmaSource(before, after) == after

\* the body of train_step: loss and gradients g of the batch (finite or not),
\* zero_grad, backward, the optimizer step (through the scaler under mixed
\* precision), update_train_state, return metrics (the memory decorator adds
\* "mem" to them when memory is tracked)
TrainStepBody(loss, g, finite) ==
    LET stepped  == IF use_mixed_precision
                    THEN ScalerStep(tensors, g, finite)
                    ELSE OptimizerStep(tensors, g)
        ema2     == UpdateParameters(ema_model,
                                     EmaSource(tensors.param, stepped.param),
                                     train_state.ema_decay)
        returned == UpdateTrainState(train_state)
    IN  /\ training' = TRUE
        /\ tensors' = stepped
        /\ scaler' = IF use_mixed_precision THEN ScalerUpdate(scaler, finite)
                     ELSE scaler
        /\ ema_model' = ema2
        /\ returned_state' = returned
        /\ train_state' = HeldAfterUpdate(train_state, returned)
        /\ last_metrics' = [loss |-> loss, has_mem |-> track_memory]
        /\ step_calls' = step_calls + 1
        /\ p_hist' = Append(p_hist, stepped.param)
        /\ last_finite' = finite
        /\ held_before' = View(train_state, stepped, ema_model)
        /\ held_after' = View(train_state, stepped, ema2)
        /\ returned_view' = View(returned, stepped, ema2)
        /\ UNCHANGED <<use_mixed_precision, ema_decay, track_memory, init_view>>

(***************************************************************************)
(* BaseTrainer.train                                                       *)
(***************************************************************************)
\* TrainMetrics(track_memory): empty accumulators, each the observations
\* folded into it
NewTrainMetrics == [loss |-> <<>>, loss_std |-> <<>>, mem |-> <<>>]

\* for step in range(num_steps)
LoopContinuesOneMore(i, n) == i <= n

LoopContinues(i, n) == i < n

\* the three update calls of the loop body
Fold(acc, m, track) ==
    [loss     |-> Append(acc.loss, m.loss),
     loss_std |-> Append(acc.loss_std, m.loss),
     mem      |-> IF track /\ m.has_mem THEN Append(acc.mem, m.loss) ELSE acc.mem]

\* the inputs of one train_step: the batch's loss and gradients, and whether
\* the gradients are finite (float16 overflow, so only under mixed precision)
StepInputs ==
    { [loss |-> l, g |-> g, finite |-> f] :
        l \in Losses, g \in Grads, f \in BOOLEAN }

Admissible(in) == in.finite \/ use_mixed_precision

DsIdle ==
    /\ ds_ratios = <<>> /\ ds_channels = <<>> /\ ds_shape = <<>>
    /\ ds_outcome = "none" /\ ds_out_shape = <<>>

LlIdle ==
    /\ ll_order = "latlon" /\ ll_kernel = <<>> /\ ll_strides = <<>>
    /\ ll_use_local = FALSE /\ ll_built = "none" /\ ll_input = None
    /\ ll_outcome = "none" /\ ll_padded = <<>> /\ ll_out_shape = <<>>

ClIdle ==
    /\ cl_kernel = <<>> /\ cl_stride = <<>> /\ cl_padding = 0
    /\ cl_weights = None /\ cl_rng = 0 /\ cl_allocs = 0
    /\ cl_first_shape = <<>> /\ cl_last_shape = <<>> /\ cl_outcome = "none"
    /\ cl_out_shape = <<>> /\ cl_used = None
    /\ cl_calls = 0 /\ cl_ok_calls = 0

\* no constructor is being followed
CtIdle ==
    /\ ct_variant = "none" /\ ct_args = None /\ ct_stack = <<>>
    /\ ct_fields = {} /\ ct_train_state = None /\ ct_init_calls = 0
    /\ ct_outcome = "none"

OthersIdle == DsIdle /\ LlIdle /\ ClIdle /\ CtIdle

\* the fresh denoiser handed to inference_fn_from_state_dict
FreshDenoiser ==
    [params |-> [num |-> [k \in Keys |-> 7], n |-> 0], training |-> TRUE,
     loaded |-> FALSE]

\* the constructor arguments tried: each value of each argument, and each
\* decay with and without mixed precision
TrainerConfigs ==
    { [mixed |-> m, decay |-> d, track |-> (m = (d[2] = 2))] :
        m \in BOOLEAN, d \in Decays }

\* DenoisingTrainer.__init__
TrainerInit ==
    /\ \E c \in TrainerConfigs :
          /\ use_mixed_precision = c.mixed
          /\ ema_decay = c.decay
          /\ track_memory = c.track
    /\ tensors = [param |-> InitParams, opt |-> [k \in Keys |-> 0]]
    /\ ema_model = NewEmaModel(InitParams)
    /\ scaler = IF use_mixed_precision THEN NewGradScaler ELSE None
    /\ training = TRUE
    /\ train_state = InitializeTrainState(ema_decay)
    /\ returned_state = None
    /\ last_metrics = None
    /\ step_calls = 0
    /\ p_hist = <<>>
    /\ last_finite = TRUE
    /\ held_before = View(train_state, tensors, ema_model)
    /\ held_after = View(train_state, tensors, ema_model)
    /\ init_view = View(train_state, tensors, ema_model)
    /\ returned_view = None
    /\ train_pc = "idle"
    /\ num_steps = 0
    /\ loop_i = 0
    /\ iter_left = 0
    /\ train_metrics = NewTrainMetrics
    /\ train_result = None
    /\ train_outcome = "none"
    /\ pulls = 0
    /\ steps_in_call = 0
    /\ train_calls = 0
    /\ inf_denoiser = FreshDenoiser
    /\ inf_outcome = "none"
    /\ inf_args = None
    /\ eval_pc = "idle"
    /\ eval_n = 0
    /\ eval_i = 0
    /\ eval_left = 0
    /\ eval_metrics = 0
    /\ eval_outcome = "none"
    /\ eval_pre = None

Init == TrainerInit /\ OthersIdle

loopVars == <<train_pc, num_steps, loop_i, iter_left, train_metrics,
              train_result, train_outcome, pulls, steps_in_call,
              train_calls>>

infVars == <<inf_denoiser, inf_outcome, inf_args>>

stepVars == <<use_mixed_precision, ema_decay, track_memory, tensors, ema_model,
              scaler, training, train_state, returned_state, last_metrics,
              step_calls, p_hist, last_finite, held_before, held_after,
              init_view, returned_view>>

evalVars == <<eval_pc, eval_n, eval_i, eval_left, eval_metrics, eval_outcome,
              eval_pre>>

otherVars == <<dsVars, llVars, clVars, evalVars, ctVars>>

\* train(batch_iter, n) is entered, batch_iter an iterator of len batches
TrainCall(n, len) ==
    /\ train_pc = "idle"
    /\ inf_outcome = "none"
    /\ step_calls + n <= MaxCalls
    /\ train_calls < MaxTrainCalls
    /\ train_pc' = "loop"
    /\ num_steps' = n
    /\ loop_i' = 0
    /\ iter_left' = len
    /\ train_metrics' = NewTrainMetrics
    /\ train_outcome' = "none"
    /\ pulls' = 0
    /\ steps_in_call' = 0
    /\ train_calls' = train_calls + 1
    /\ training' = TRUE
    /\ UNCHANGED <<train_result, infVars, otherVars>>
    /\ UNCHANGED <<use_mixed_precision, ema_decay, track_memory, tensors,
                   ema_model, scaler, train_state, returned_state, last_metrics,
                   step_calls, p_hist, last_finite, held_before, held_after,
                   init_view, returned_view>>

\* batch = next(batch_iter)
TrainPull ==
    /\ train_pc = "loop"
    /\ LoopContinues(loop_i, num_steps)
    /\ iter_left > 0
    /\ iter_left' = iter_left - 1
    /\ pulls' = pulls + 1
    /\ train_pc' = "batch"
    /\ UNCHANGED <<num_steps, loop_i, train_metrics, train_result, train_outcome,
                   steps_in_call, train_calls, stepVars, infVars, otherVars>>

\* next(batch_iter) on an exhausted iterator: StopIteration leaves train and
\* the locals of the call are let go
TrainExhausted ==
    /\ train_pc = "loop"
    /\ LoopContinues(loop_i, num_steps)
    /\ iter_left = 0
    /\ train_pc' = "idle"
    /\ train_outcome' = "StopIteration"
    /\ loop_i' = 0
    /\ train_metrics' = NewTrainMetrics
    /\ UNCHANGED <<num_steps, iter_left, train_result,
                   pulls, steps_in_call, train_calls, stepVars, infVars, otherVars>>

\* metrics_update = self.train_step(batch), then the metric updates
TrainLoopStep ==
    /\ train_pc = "batch"
    /\ \E in \in StepInputs :
        /\ Admissible(in)
        /\ TrainStepBody(in.loss, in.g, in.finite)
        /\ train_metrics' = Fold(train_metrics, last_metrics', track_memory)
    /\ steps_in_call' = steps_in_call + 1
    /\ loop_i' = loop_i + 1
    /\ train_pc' = "loop"
    /\ UNCHANGED <<num_steps, iter_left, train_result, train_outcome, pulls,
                   train_calls, infVars, otherVars>>

\* the range is used up: return train_metrics; the locals of the call (and
\* what is left of the iterator, which no formula reads) are let go
TrainReturn ==
    /\ train_pc = "loop"
    /\ ~LoopContinues(loop_i, num_steps)
    /\ train_pc' = "idle"
    /\ train_result' = train_metrics
    /\ train_outcome' = "returned"
    /\ loop_i' = 0
    /\ iter_left' = 0
    /\ train_metrics' = NewTrainMetrics
    /\ UNCHANGED <<num_steps, pulls, steps_in_call, train_calls, stepVars,
                   infVars, otherVars>>

\* train_step called on its own
TrainStep ==
    /\ train_pc = "idle"
    /\ inf_outcome = "none"
    /\ step_calls < MaxCalls
    /\ \E in \in StepInputs :
        /\ Admissible(in)
        /\ TrainStepBody(in.loss, in.g, in.finite)
    /\ UNCHANGED <<loopVars, infVars, otherVars>>

(***************************************************************************)
(* DenoisingTrainer.inference_fn_from_state_dict                           *)
(***************************************************************************)
\* if use_ema: if state.ema_model: load_state_dict(state.ema_parameters)
LoadsEmaWhenPresent(use_ema, st) == st.ema_model # None

LoadsEma(use_ema, st) == use_ema /\ st.ema_model # None

\* else: raise ValueError("EMA model is None or not initialized")
RaisesMissingEma(use_ema, st) == use_ema /\ st.ema_model = None

\* a state that carries no EMA model
WithoutEma(st) == [st EXCEPT !.ema_model = None, !.ema = None]

InferenceFnFromStateDict(use_ema, st) ==
    /\ train_pc = "idle"
    /\ inf_outcome = "none"
    /\ inf_args' = [use_ema |-> use_ema, has_ema |-> st.ema_model # None]
    /\ inf_denoiser' =
         IF LoadsEma(use_ema, st)
         THEN [params |-> ema_model, training |-> FALSE, loaded |-> TRUE]
         ELSE [FreshDenoiser EXCEPT !.training = FALSE]
    /\ inf_outcome' = IF RaisesMissingEma(use_ema, st) THEN "ValueError"
                      ELSE "inference_fn"
    /\ UNCHANGED <<stepVars, loopVars, otherVars>>

\* the caller is done with what inference_fn_from_state_dict gave it
InferenceDone ==
    /\ inf_outcome # "none"
    /\ inf_denoiser' = FreshDenoiser
    /\ inf_outcome' = "none"
    /\ inf_args' = None
    /\ UNCHANGED <<stepVars, loopVars, otherVars>>

Next ==
    \/ \E n \in 0..MaxNumSteps, len \in 0..MaxNumSteps : TrainCall(n, len)
    \/ TrainPull
    \/ TrainExhausted
    \/ TrainLoopStep
    \/ TrainReturn
    \/ TrainStep
    \/ \E use_ema \in BOOLEAN, st \in {train_state, WithoutEma(train_state)} :
          InferenceFnFromStateDict(use_ema, st)
    \/ InferenceDone

Spec == Init /\ [][Next]_vars

----------------------------------------------------------------------------
(***************************************************************************)
(* The trainer's properties.                                               *)
(***************************************************************************)
\* C1: after N train_step calls that returned, trainer.train_state.step is
\* s0 + N, s0 the step of the state the trainer was constructed with.
C1_StepCountsCalls == train_state.step = init_view.step + step_calls

\* C2: update_train_state leaves every field of the state that was current
\* before the call (step, parameter snapshot, optimizer snapshot, EMA
\* parameters) at the value it had before the call.
C2_HeldStateUntouched == SameView(held_before, held_after)

\* C3: the parameter and optimizer snapshots of a training state keep the
\* values they had when the state was created, whatever the optimizer steps
\* that come later; for the state made by initialize_train_state and for the
\* last one made by update_train_state.
C3_SnapshotsAreCopies ==
    /\ Stored(train_state.params, tensors) = init_view.params
    /\ Stored(train_state.opt_state, tensors) = init_view.opt_state
    /\ returned_state # None =>
         /\ Stored(returned_state.params, tensors) = returned_view.params
         /\ Stored(returned_state.opt_state, tensors) = returned_view.opt_state

\* C4: a train_step under mixed precision whose gradients are not all finite
\* leaves the live parameters (and optimizer buffers) as they were, ends with
\* a strictly smaller scale factor, and returns its metrics.
C4_OverflowSkipsStep ==
    [][(step_calls' = step_calls + 1 /\ use_mixed_precision /\ ~last_finite')
        => /\ tensors' = tensors
           /\ scaler'.scale < scaler.scale
           /\ scaler'.scale > 0
           /\ last_metrics' # None
           /\ last_metrics'.loss \in Losses]_vars

\* a finite step, then an overflow step: the scale has been halved once
C4_Witness ==
    /\ use_mixed_precision
    /\ step_calls = 2
    /\ ~last_finite
    /\ tensors.param # InitParams
    /\ scaler.scale * BackoffDivisor = InitScale

\* the sum over j = 1..m of num^(n-j) * den^(j-1) * p_j[k]
RECURSIVE EmaSum(_, _, _, _, _)
EmaSum(hist, d, k, n, m) ==
    IF m = 0 THEN 0
    ELSE EmaSum(hist, d, k, n, m - 1)
         + Pow(d[1], n - m) * Pow(d[2], m - 1) * hist[m][k]

\* C5: the EMA has been updated once per train_step, and read through
\* trainer.train_state it is d^n * ema_0 + (1-d) * sum_k d^(n-k) * p_k, with
\* ema_0 the initial parameters, p_k the live parameters after the k-th
\* train_step and d the decay the trainer was constructed with (both sides
\* multiplied by den^n).
C5_EmaClosedForm ==
    LET ema == View(train_state, tensors, ema_model).ema
        d   == train_state.ema_decay
        n   == step_calls
    IN  /\ d = ema_decay
        /\ returned_state # None => returned_state.ema_decay = ema_decay
        /\ ema.n = n
        /\ \A k \in Keys :
             ema.num[k] = Pow(d[1], n) * InitParams[k]
                          + (d[2] - d[1]) * EmaSum(p_hist, d, k, n, n)

\* two steps whose gradients moved the parameters
C5_Witness ==
    /\ step_calls = 2
    /\ p_hist[1] # InitParams
    /\ p_hist[2] # p_hist[1]
    /\ ~EmaEq(View(train_state, tensors, ema_model).ema, init_view.ema)

\* C6: inference_fn_from_state_dict loads the EMA parameters into the
\* denoiser exactly when use_ema holds and the state has an EMA model; with
\* use_ema and no EMA model it raises and returns nothing; without use_ema
\* the denoiser's parameters stay and the inference function is returned.
C6_InferenceLoadsEma ==
    inf_outcome # "none" =>
        /\ inf_denoiser.loaded <=> (inf_args.use_ema /\ inf_args.has_ema)
        /\ inf_denoiser.loaded => inf_denoiser.params = ema_model
        /\ ~inf_denoiser.loaded => inf_denoiser.params = FreshDenoiser.params
        /\ (inf_outcome = "ValueError")
             <=> (inf_args.use_ema /\ ~inf_args.has_ema)
        /\ ~inf_args.use_ema => inf_outcome = "inference_fn"
        /\ ~inf_denoiser.training

\* the EMA of a trained state has been loaded
C6_Witness ==
    /\ inf_outcome = "inference_fn"
    /\ inf_denoiser.loaded
    /\ step_calls > 0
    /\ inf_denoiser.params # FreshDenoiser.params

\* what is left of the running train call: iterations, and the pull of the
\* current one
LoopMeasure ==
    2 * (num_steps - loop_i) + (IF train_pc = "loop" THEN 1 ELSE 0)

C10_LoopInvariant ==
    /\ train_pc = "loop" =>
         /\ loop_i <= num_steps
         /\ pulls = loop_i /\ steps_in_call = loop_i
         /\ Len(train_metrics.loss) = loop_i
         /\ Len(train_metrics.loss_std) = loop_i
    /\ train_pc = "batch" =>
         /\ loop_i < num_steps
         /\ pulls = loop_i + 1 /\ steps_in_call = loop_i
         /\ Len(train_metrics.loss) = loop_i
         /\ Len(train_metrics.loss_std) = loop_i
    /\ train_outcome = "returned" =>
         /\ pulls = num_steps /\ steps_in_call = num_steps
         /\ Len(train_result.loss) = num_steps
         /\ Len(train_result.loss_std) = num_steps
    /\ train_pc # "idle" =>
         ENABLED (TrainPull \/ TrainExhausted \/ TrainLoopStep \/ TrainReturn)

----------------------------------------------------------------------------
(***************************************************************************)
(* DownsampleConv                                                          *)
(***************************************************************************)
\* longest inputs.shape handed to DownsampleConv.forward
MaxDsRank == 5

\* the trainer as constructed, for the specifications of the operators
TrainerIdle ==
    /\ TrainerInit
    /\ ~use_mixed_precision /\ ema_decay = <<9, 10>>
    /\ CtIdle

DsRatioVals == {2, 3}

DsDims == {2, 3, 7, 8}

DsOutChannels == 4

Min(a, b) == IF a < b THEN a ELSE b

\* nn.Conv1d/2d/3d(kernel_size=ratios, stride=ratios, padding=0) on a batched
\* input (N, C, spatial...): C must be in_channels and no kernel may be longer
\* than its axis
ConvNd(ratios, ch, shape) ==
    LET n == Len(ratios)
    IN  IF \/ shape[2] # ch[1]
           \/ \E i \in 1..n : shape[i + 2] < ratios[i]
        THEN [outcome |-> "conv_error", out_shape |-> <<>>]
        ELSE [outcome |-> "ok",
              out_shape |-> [i \in 1..(n + 2) |->
                               IF i = 1 THEN shape[1]
                               ELSE IF i = 2 THEN ch[2]
                               ELSE (shape[i] - ratios[i - 2]) \div ratios[i - 2] + 1]]

\* spatial_shape = inputs.shape[batch_ndims:-1]
SpatialShape(shape, batch_ndims) ==
    SubSeq(shape, batch_ndims + 1, Len(shape) - 1)

\* all(s % r == 0 for s, r in zip(spatial_shape, self.ratios))
AllDivide(spatial, ratios) ==
    \A i \in 1..Min(Len(spatial), Len(ratios)) : spatial[i] % ratios[i] = 0

\* DownsampleConv.forward
DownsampleForward(ratios, ch, shape) ==
    LET n == Len(ratios)
        r == Len(shape)
        batch_ndims == r - n - 1
    IN  IF r <= n
        THEN [outcome |-> "rank_error", out_shape |-> <<>>]
        ELSE IF ~AllDivide(SpatialShape(shape, batch_ndims), ratios)
        THEN [outcome |-> "divisibility_error", out_shape |-> <<>>]
        ELSE IF r \in {3, 4, 5}
        THEN IF n = r - 2
             THEN ConvNd(ratios, ch, shape)
             \* self.conv3d / conv2d / conv1d was never built
             ELSE [outcome |-> "AttributeError", out_shape |-> <<>>]
        ELSE [outcome |-> "dimension_error", out_shape |-> <<>>]

\* DownsampleConv.__init__ with ratios of length 1, 2 or 3
DsInit ==
    /\ ds_ratios \in UNION {[1..n -> DsRatioVals] : n \in 1..3}
    /\ ds_channels \in {<<2, DsOutChannels>>, <<3, DsOutChannels>>}
    /\ ds_shape = <<>>
    /\ ds_outcome = "none"
    /\ ds_out_shape = <<>>

DsForward(shape) ==
    LET res == DownsampleForward(ds_ratios, ds_channels, shape)
    IN  /\ ds_outcome = "none"
        /\ ds_shape' = shape
        /\ ds_outcome' = res.outcome
        /\ ds_out_shape' = res.out_shape
        /\ UNCHANGED <<ds_ratios, ds_channels, trainerVars, llVars, clVars>>

\* the caller is done with what forward gave it
DsDone ==
    /\ ds_outcome # "none"
    /\ ds_shape' = <<>>
    /\ ds_outcome' = "none"
    /\ ds_out_shape' = <<>>
    /\ UNCHANGED <<ds_ratios, ds_channels, trainerVars, llVars, clVars>>

DsNext ==
    \/ \E r \in 2..MaxDsRank : \E shape \in [1..r -> DsDims] : DsForward(shape)
    \/ DsDone

DsSpecInit == DsInit /\ TrainerIdle /\ LlIdle /\ ClIdle

SpecDownsample == DsSpecInit /\ [][DsNext]_vars

\* C7: on an input laid out (batch, channel, spatial...) forward raises the
\* divisibility error exactly when a spatial size is no multiple of its ratio,
\* whatever the batch and channel sizes; an accepted input comes out with
\* every spatial size divided by its ratio.
C7_DivisibilityOfSpatialDims ==
    (ds_outcome # "none" /\ Len(ds_shape) = Len(ds_ratios) + 2) =>
        /\ (ds_outcome = "divisibility_error")
             <=> (\E i \in 1..Len(ds_ratios) : ds_shape[i + 2] % ds_ratios[i] # 0)
        /\ ds_outcome = "ok" =>
             \A i \in 1..Len(ds_ratios) :
                 ds_out_shape[i + 2] * ds_ratios[i] = ds_shape[i + 2]

\* the errors forward raises itself (its three ValueErrors)
DsShapeErrors == {"rank_error", "divisibility_error", "dimension_error"}

\* C13: an input whose rank is not len(ratios) + 2 (batch, channel and one
\* axis per ratio) is rejected by one of forward's own shape errors; forward
\* never reaches for a convolution the instance did not build.
C13_RankMismatchRejected ==
    (ds_outcome # "none" /\ Len(ds_shape) # Len(ds_ratios) + 2) =>
        ds_outcome \in DsShapeErrors

----------------------------------------------------------------------------
(***************************************************************************)
(* LatLonConv                                                              *)
(***************************************************************************)
\* largest height and width of the inputs handed to LatLonConv.forward
MaxGrid == 3

LlOrders == {"latlon", "lonlat", "xy"}

LlKernelVals == {1, 2, 3, 5}

\* an H x W tensor (the last two axes of the input) of distinct values
Grid(h, w) == [i \in 1..h |-> [j \in 1..w |-> (i - 1) * w + j]]

\* the index F.pad reads for index i of an axis of length n padded by p in front
PadSource(i, n, p, mode) ==
    IF mode = "circular" THEN ((i - 1 - p) % n) + 1
    ELSE IF i - p < 1 THEN 1
    ELSE IF i - p > n THEN n
    ELSE i - p

\* F.pad(x, [left, right, top, bottom], mode) on the last two axes of x: the
\* first pair pads the last axis, the second pair the axis before it
FPad(x, pad, mode) ==
    LET h == Len(x)
        w == Len(x[1])
    IN  [i \in 1..(h + pad[3] + pad[4]) |->
           [j \in 1..(w + pad[1] + pad[2]) |->
              x[PadSource(i, h, pad[3], mode)][PadSource(j, w, pad[1], mode)]]]

\* the widths forward computes from order: lat_pad and lon_pad are the same
\* halves of kernel_size under both orders
LatPad(order, kernel) == kernel[1] \div 2

LonPad(order, kernel) == kernel[2] \div 2

\* the two F.pad calls of forward
LatLonPad(order, kernel, x) ==
    FPad(FPad(x, <<0, 0, LonPad(order, kernel), LonPad(order, kernel)>>, "circular"),
         <<LatPad(order, kernel), LatPad(order, kernel), 0, 0>>, "replicate")

\* nn.Conv2d(kernel_size, stride=strides, padding=0) on the padded tensor
Conv2dShape(kernel, strides, h, w) ==
    IF h < kernel[1] \/ w < kernel[2] THEN <<>>
    ELSE <<(h - kernel[1]) \div strides[1] + 1, (w - kernel[2]) \div strides[2] + 1>>

\* LatLonConv.__init__: ConvLocal2d is built with bias=use_bias, a keyword its
\* constructor does not take
LatLonBuild(use_local) == IF use_local THEN "TypeError" ELSE "Conv2d"

\* LatLonConv.forward
LatLonForward(order, kernel, strides, in) ==
    LET h == Len(in.grid)
        w == Len(in.grid[1])
        padded == LatLonPad(order, kernel, in.grid)
        out == Conv2dShape(kernel, strides, Len(padded), Len(padded[1]))
        err(e) == [outcome |-> e, padded |-> <<>>, out_shape |-> <<>>]
    IN  IF in.rank < 4 THEN err("rank_error")
        ELSE IF kernel[1] % 2 = 0 \/ kernel[2] % 2 = 0 THEN err("even_kernel_error")
        ELSE IF order \notin {"latlon", "lonlat"} THEN err("order_error")
        \* F.pad: a 4-element non-constant pad takes 3-D and 4-D inputs only,
        \* and a circular pad may not be wider than the axis
        ELSE IF in.rank > 4 \/ LonPad(order, kernel) > h THEN err("pad_error")
        ELSE IF out = <<>>
        THEN [outcome |-> "conv_error", padded |-> padded, out_shape |-> <<>>]
        ELSE [outcome |-> "ok", padded |-> padded, out_shape |-> out]

LlInit ==
    /\ ll_order \in LlOrders
    /\ ll_kernel \in [1..2 -> LlKernelVals]
    /\ ll_strides \in {<<1, 1>>, <<2, 2>>}
    /\ ll_use_local \in BOOLEAN
    /\ ll_built = LatLonBuild(ll_use_local)
    /\ ll_input = None
    /\ ll_outcome = "none"
    /\ ll_padded = <<>>
    /\ ll_out_shape = <<>>

LlForward(in) ==
    LET res == LatLonForward(ll_order, ll_kernel, ll_strides, in)
    IN  /\ ll_built = "Conv2d"
        /\ ll_outcome = "none"
        /\ ll_input' = in
        /\ ll_outcome' = res.outcome
        /\ ll_padded' = res.padded
        /\ ll_out_shape' = res.out_shape
        /\ UNCHANGED <<ll_order, ll_kernel, ll_strides, ll_use_local, ll_built,
                       trainerVars, dsVars, clVars>>

\* the caller is done with what forward gave it
LlDone ==
    /\ ll_outcome # "none"
    /\ ll_input' = None
    /\ ll_outcome' = "none"
    /\ ll_padded' = <<>>
    /\ ll_out_shape' = <<>>
    /\ UNCHANGED <<ll_order, ll_kernel, ll_strides, ll_use_local, ll_built,
                   trainerVars, dsVars, clVars>>

LlNext ==
    \/ \E r \in 3..5, h \in 1..MaxGrid, w \in 1..MaxGrid :
          LlForward([rank |-> r, grid |-> Grid(h, w)])
    \/ LlDone

LlSpecInit == LlInit /\ TrainerIdle /\ DsIdle /\ ClIdle

SpecLatLon == LlSpecInit /\ [][LlNext]_vars

\* the other of the two orders
OtherOrder(order) == IF order = "latlon" THEN "lonlat" ELSE "latlon"

\* C8: under order lonlat forward pads the first spatial axis circularly and
\* the second by edge replication, under order latlon the first by edge
\* replication and the second circularly, so that the two orders pad one input
\* differently (for a kernel of at least 3 x 3 and an input of at least 2 x 2,
\* where the two paddings differ).
C8_OrderSelectsPaddedAxes ==
    (/\ ll_outcome \in {"ok", "conv_error"}
     /\ ll_kernel[1] >= 3 /\ ll_kernel[2] >= 3
     /\ Len(ll_input.grid) >= 2 /\ Len(ll_input.grid[1]) >= 2) =>
        LET first  == Len(ll_padded) - Len(ll_input.grid)
            second == Len(ll_padded[1]) - Len(ll_input.grid[1])
            f == first \div 2
            g == second \div 2
        IN  /\ ll_order = "lonlat" =>
                 ll_padded = FPad(FPad(ll_input.grid, <<0, 0, f, f>>, "circular"),
                                  <<g, g, 0, 0>>, "replicate")
            /\ ll_order = "latlon" =>
                 ll_padded = FPad(FPad(ll_input.grid, <<0, 0, f, f>>, "replicate"),
                                  <<g, g, 0, 0>>, "circular")
            /\ ll_padded # LatLonPad(OtherOrder(ll_order), ll_kernel, ll_input.grid)

\* C15: construction succeeds with either delegate, a Conv2d without
\* use_local and a ConvLocal2d with it, and a forward call that returns gives
\* what the delegate makes of the padded tensor with no padding of its own.
C15_BothDelegatesConstruct ==
    /\ ll_built = (IF ll_use_local THEN "ConvLocal2d" ELSE "Conv2d")
    /\ ll_outcome = "ok" =>
          ll_out_shape = Conv2dShape(ll_kernel, ll_strides,
                                     Len(ll_padded), Len(ll_padded[1]))

\* C16: with an odd kernel (kh, kw), strides (1, 1) and either order, forward
\* pads the first spatial axis by kh \div 2 and the second by kw \div 2 on
\* each side, the halves of what the convolution takes along those axes, and
\* returns an output of the input's height and width.
C16_PaddingKeepsShape ==
    (/\ ll_outcome \in {"ok", "conv_error"}
     /\ ll_strides = <<1, 1>>) =>
        /\ Len(ll_padded) = Len(ll_input.grid) + 2 * (ll_kernel[1] \div 2)
        /\ Len(ll_padded[1]) = Len(ll_input.grid[1]) + 2 * (ll_kernel[2] \div 2)
        /\ ll_outcome = "ok"
        /\ ll_out_shape = <<Len(ll_input.grid), Len(ll_input.grid[1])>>

----------------------------------------------------------------------------
(***************************************************************************)
(* ConvLocal2d                                                             *)
(***************************************************************************)
\* forward calls on one ConvLocal2d in one behaviour
MaxClCalls == 3

\* largest height and width of the inputs handed to ConvLocal2d.forward
MaxClSize == 5

ClOutChannels == 2

\* kernel_size as given (an int k stands for (k, k)) and as stored
ClKernels == {<<1, 1>>, <<2, 2>>, <<3, 3>>, <<2, 3>>, <<3, 2>>}

\* x.shape of the inputs: (batch, channel, height, width), and one input each
\* of rank 3 and of rank 5
ClShapes ==
    { <<1, c, h, w>> : c \in {2, 3}, h \in 3..MaxClSize, w \in 3..MaxClSize }
    \cup { <<1, 3, 3>>, <<1, 1, 1, 3, 3>> }

\* (height - kernel + 2 * padding) // stride + 1
OutSize(n, k, st, p) == (n - k + 2 * p) \div st + 1

\* if self.weights is None
AllocatesEveryCall(w) == TRUE

NeedsAllocation(w) == w = None

\* torch.empty(out_height, out_width, out_channels, in_channels, kh, kw) and
\* xavier_uniform_ with self.rng: the tensor's shape and the generator draw
\* that gave it its values
NewWeights(out_h, out_w, in_channels, kernel, draw) ==
    [shape |-> <<out_h, out_w, ClOutChannels, in_channels, kernel[1], kernel[2]>>,
     init  |-> draw]

\* the loop over output locations: einsum('bchw, ocwh->bo', patch,
\* self.weights[i, j]) needs the patch's channels to be the weights' and,
\* h and w being swapped between its operands, kernel height = kernel width;
\* self.weights[i, j] needs i and j inside the weights' first two axes
Contract(w, in_channels, kernel, out_h, out_w) ==
    IF in_channels # w.shape[4] \/ kernel[1] # kernel[2] THEN "einsum_error"
    ELSE IF out_h > w.shape[1] \/ out_w > w.shape[2] THEN "index_error"
    ELSE "ok"

ClInit ==
    /\ cl_kernel \in ClKernels
    /\ cl_stride \in {<<1, 1>>, <<2, 2>>}
    /\ cl_padding \in {0, 1}
    /\ cl_weights = None
    /\ cl_rng = 0
    /\ cl_allocs = 0
    /\ cl_first_shape = <<>>
    /\ cl_last_shape = <<>>
    /\ cl_outcome = "none"
    /\ cl_out_shape = <<>>
    /\ cl_used = None
    /\ cl_calls = 0
    /\ cl_ok_calls = 0

\* ConvLocal2d.forward on an input of rank 4
ClForward(shape) ==
    LET out_h == OutSize(shape[3], cl_kernel[1], cl_stride[1], cl_padding)
        out_w == OutSize(shape[4], cl_kernel[2], cl_stride[2], cl_padding)
        alloc == NeedsAllocation(cl_weights)
        w     == IF alloc
                 THEN NewWeights(out_h, out_w, shape[2], cl_kernel, cl_rng + 1)
                 ELSE cl_weights
        res   == Contract(w, shape[2], cl_kernel, out_h, out_w)
    IN  /\ cl_calls < MaxClCalls
        /\ Len(shape) = 4
        /\ cl_calls' = cl_calls + 1
        /\ cl_last_shape' = shape
        /\ cl_weights' = w
        /\ cl_rng' = IF alloc THEN cl_rng + 1 ELSE cl_rng
        /\ cl_allocs' = IF alloc THEN cl_allocs + 1 ELSE cl_allocs
        /\ cl_first_shape' = IF cl_weights = None THEN shape ELSE cl_first_shape
        /\ cl_outcome' = res
        /\ cl_out_shape' = IF res = "ok"
                           THEN <<shape[1], ClOutChannels, out_h, out_w>>
                           ELSE <<>>
        /\ cl_used' = IF res = "ok" THEN w ELSE None
        /\ cl_ok_calls' = IF res = "ok" THEN cl_ok_calls + 1 ELSE cl_ok_calls
        /\ UNCHANGED <<cl_kernel, cl_stride, cl_padding, trainerVars, dsVars,
                       llVars>>

\* ConvLocal2d.forward on an input of another rank: the rank check raises
\* below 4, the unpacking of x.shape above it
ClForwardBadRank(shape) ==
    /\ cl_calls < MaxClCalls
    /\ Len(shape) # 4
    /\ cl_calls' = cl_calls + 1
    /\ cl_last_shape' = shape
    /\ cl_outcome' = IF Len(shape) < 4 THEN "rank_error" ELSE "unpack_error"
    /\ cl_out_shape' = <<>>
    /\ cl_used' = None
    /\ UNCHANGED <<cl_kernel, cl_stride, cl_padding, cl_weights, cl_rng,
                   cl_allocs, cl_first_shape, cl_ok_calls, trainerVars, dsVars,
                   llVars>>

ClNext ==
    \/ \E shape \in ClShapes : ClForward(shape)
    \/ \E shape \in ClShapes : ClForwardBadRank(shape)

ClSpecInit == ClInit /\ TrainerIdle /\ DsIdle /\ LlIdle

SpecLocal == ClSpecInit /\ [][ClNext]_vars

\* the weights the call that allocated should have made
C9_FirstWeights ==
    NewWeights(OutSize(cl_first_shape[3], cl_kernel[1], cl_stride[1], cl_padding),
               OutSize(cl_first_shape[4], cl_kernel[2], cl_stride[2], cl_padding),
               cl_first_shape[2], cl_kernel, 1)

C9_Allocated ==
    /\ cl_weights = None => cl_allocs = 0 /\ cl_ok_calls = 0
    /\ cl_weights # None =>
         /\ cl_allocs = 1
         /\ cl_rng = 1
         /\ cl_weights = C9_FirstWeights
    /\ cl_outcome = "ok" => cl_used = cl_weights

\* C9: over any sequence of forward calls the weight tensor is allocated and
\* initialized once, by the first call that gets there and with the shape
\* out_h x out_w x out_channels x in_channels x kernel_h x kernel_w of that
\* call's input; no later call changes it or draws from the generator again,
\* and every output is made with it.
C9_WeightsAllocatedOnce ==
    /\ []C9_Allocated
    /\ [][cl_weights # None =>
            (cl_weights' = cl_weights /\ cl_rng' = cl_rng)]_vars

\* two calls with one input shape, both returned
C9_Witness ==
    /\ cl_calls = 2
    /\ cl_ok_calls = 2
    /\ cl_last_shape = cl_first_shape
    /\ cl_allocs = 1
    /\ cl_used = cl_weights

\* C14: once the weights are allocated, a call whose input height or width
\* differs from the allocating call's returns an output only if the weights
\* it was made with have the output height and width of this input (weights
\* derived for the new shape); otherwise the call raises.
C14_ShapeChangeRejected ==
    (/\ cl_outcome = "ok"
     /\ <<cl_last_shape[3], cl_last_shape[4]>>
          # <<cl_first_shape[3], cl_first_shape[4]>>) =>
        /\ cl_used.shape[1] =
             OutSize(cl_last_shape[3], cl_kernel[1], cl_stride[1], cl_padding)
        /\ cl_used.shape[2] =
             OutSize(cl_last_shape[4], cl_kernel[2], cl_stride[2], cl_padding)

----------------------------------------------------------------------------
(***************************************************************************)
(* BaseTrainer.eval and BasicTrainer.eval_step (the DenoisingTrainer       *)
(* inherits both)                                                          *)
(***************************************************************************)
\* self.model.eval_fn(batch) under torch.no_grad() (the diffusion package is
\* not among the sources): a forward pass that leaves the tensors as they are
EvalFn(t) == t

\* eval_step makes no call of update_train_state and assigns nothing to
\* self.train_state
EvalStepAdvancesState(st) == [st EXCEPT !.step = st.step + 1]

EvalStepState(st) == st

\* for _ in range(num_steps)
EvalLoopContinues(i, n) == i < n

\* what the trainer holds: the training state and the values read through it,
\* the live tensors, the EMA model and the GradScaler
Held ==
    [state  |-> train_state,
     view   |-> View(train_state, tensors, ema_model),
     live   |-> tensors,
     ema    |-> ema_model,
     scaler |-> scaler]

evalFrame == <<use_mixed_precision, ema_decay, track_memory, ema_model, scaler,
               returned_state, last_metrics, step_calls, p_hist, last_finite,
               held_before, held_after, init_view, returned_view>>

\* the body of eval_step: denoiser.eval(), eval_fn under no_grad, one update
\* of each bucket of a fresh EvalMetrics, compute()
EvalStepBody ==
    /\ training' = FALSE
    /\ tensors' = [tensors EXCEPT !.param = EvalFn(tensors.param)]
    /\ train_state' = EvalStepState(train_state)
    /\ UNCHANGED evalFrame

\* no train, inference or eval call is running
TrainerQuiet ==
    /\ train_pc = "idle"
    /\ inf_outcome = "none"
    /\ eval_pc = "idle"
    /\ eval_outcome = "none"

\* eval(batch_iter, n) is entered, batch_iter an iterator of len batches
EvalCall(n, len) ==
    /\ TrainerQuiet
    /\ eval_pc' = "loop"
    /\ eval_n' = n
    /\ eval_i' = 0
    /\ eval_left' = len
    /\ eval_metrics' = 0
    /\ eval_pre' = Held
    /\ training' = FALSE
    /\ UNCHANGED <<eval_outcome, tensors, train_state, evalFrame, loopVars,
                   infVars, dsVars, llVars, clVars,
                   ctVars>>

\* batch = next(batch_iter)
EvalPull ==
    /\ eval_pc = "loop"
    /\ EvalLoopContinues(eval_i, eval_n)
    /\ eval_left > 0
    /\ eval_left' = eval_left - 1
    /\ eval_pc' = "batch"
    /\ UNCHANGED <<eval_n, eval_i, eval_metrics, eval_outcome, eval_pre,
                   stepVars, loopVars, infVars, dsVars, llVars, clVars,
                   ctVars>>

\* next(batch_iter) on an exhausted iterator: StopIteration leaves eval
EvalExhausted ==
    /\ eval_pc = "loop"
    /\ EvalLoopContinues(eval_i, eval_n)
    /\ eval_left = 0
    /\ eval_pc' = "idle"
    /\ eval_outcome' = "StopIteration"
    /\ eval_i' = 0
    /\ eval_metrics' = 0
    /\ UNCHANGED <<eval_n, eval_left, eval_pre,
                   stepVars, loopVars, infVars, dsVars, llVars, clVars,
                   ctVars>>

\* update_metrics = self.eval_step(batch), then the updates of eval_metrics
EvalLoopStep ==
    /\ eval_pc = "batch"
    /\ EvalStepBody
    /\ eval_metrics' = eval_metrics + 1
    /\ eval_i' = eval_i + 1
    /\ eval_pc' = "loop"
    /\ UNCHANGED <<eval_n, eval_left, eval_outcome, eval_pre,
                   loopVars, infVars, dsVars, llVars, clVars,
                   ctVars>>

\* the range is used up: return eval_metrics
EvalReturn ==
    /\ eval_pc = "loop"
    /\ ~EvalLoopContinues(eval_i, eval_n)
    /\ eval_pc' = "idle"
    /\ eval_outcome' = "returned"
    /\ eval_i' = 0
    /\ eval_left' = 0
    /\ UNCHANGED <<eval_n, eval_metrics, eval_pre,
                   stepVars, loopVars, infVars, dsVars, llVars, clVars,
                   ctVars>>

\* eval_step called on its own
EvalStep ==
    /\ TrainerQuiet
    /\ EvalStepBody
    /\ eval_pre' = Held
    /\ eval_outcome' = "step"
    /\ UNCHANGED <<eval_pc, eval_n, eval_i, eval_left, eval_metrics,
                   loopVars, infVars, dsVars, llVars, clVars,
                   ctVars>>

\* the caller is done with what eval or eval_step gave it
EvalDone ==
    /\ eval_pc = "idle"
    /\ eval_outcome # "none"
    /\ eval_outcome' = "none"
    /\ eval_n' = 0
    /\ eval_metrics' = 0
    /\ eval_pre' = None
    /\ UNCHANGED <<eval_pc, eval_i, eval_left,
                   stepVars, loopVars, infVars, dsVars, llVars, clVars,
                   ctVars>>

\* the arguments of eval tried: num_steps, and an iterator that yields as many
\* batches or one fewer
EvalArgs ==
    { <<n, len>> \in (0..MaxNumSteps) \X (0..MaxNumSteps) : len \in {n - 1, n} }

\* a train call between two eval calls
EvalTrainCall(n, len) == TrainerQuiet /\ TrainCall(n, len)

EvalNext ==
    \/ \E n \in 0..MaxNumSteps, len \in 0..MaxNumSteps : EvalTrainCall(n, len)
    \/ TrainPull
    \/ TrainExhausted
    \/ TrainLoopStep
    \/ TrainReturn
    \/ \E a \in EvalArgs : EvalCall(a[1], a[2])
    \/ EvalPull
    \/ EvalExhausted
    \/ EvalLoopStep
    \/ EvalReturn
    \/ EvalStep
    \/ EvalDone

SpecEval == Init /\ [][EvalNext]_vars

\* C11: while eval or eval_step runs and when it has returned (or raised), the
\* training state (step, parameter snapshot, optimizer state, EMA parameters),
\* the live tensors, the EMA model and the gradient scaler are what they were
\* on entry to the call, wherever among the train_step calls the call falls.
C11_EvalMutatesNothing ==
    eval_pre # None =>
        /\ train_state = eval_pre.state
        /\ View(train_state, tensors, ema_model) = eval_pre.view
        /\ tensors = eval_pre.live
        /\ ema_model = eval_pre.ema
        /\ scaler = eval_pre.scaler

\* an eval of two steps has returned after a train_step whose overflow backed
\* the scale off
C11_Witness ==
    /\ eval_outcome = "returned"
    /\ eval_n = 2
    /\ eval_metrics = 2
    /\ step_calls >= 2
    /\ scaler # None
    /\ scaler.scale < InitScale
    /\ ~training

----------------------------------------------------------------------------
(***************************************************************************)
(* The constructors: BaseTrainer.__init__, BasicTrainer.__init__,          *)
(* BasicDistributedTrainer.__init__, DenoisingTrainer.__init__             *)
(***************************************************************************)
CtVariants == {"Basic", "Distributed", "Denoising"}

Assign(f) == [kind |-> "assign", field |-> f, class |-> "none"]

Super(c) == [kind |-> "super", field |-> "none", class |-> c]

InitState == [kind |-> "init_state", field |-> "train_state", class |-> "none"]

\* the statements of each __init__, in their order
CtBody(c) ==
    CASE c = "Base" ->
           <<Assign("model"), Assign("device"), InitState, Assign("track_memory")>>
      [] c = "Basic" ->
           <<Super("Base"), Assign("optimizer")>>
      [] c = "Distributed" ->
           <<Super("Basic"), Assign("model")>>
      [] c = "Denoising" ->
           <<Assign("optimizer"), Assign("ema_decay"), Assign("track_memory"),
             Assign("compute_dtype"), Assign("use_mixed_precision"),
             Assign("scaler"), Super("Basic")>>

\* the class whose __init__ a construction enters
CtClass(variant) == variant

\* the attributes of self that the variant's initialize_train_state reads
CtReads(variant) ==
    IF variant = "Denoising" THEN {"model", "optimizer", "ema_decay"}
    ELSE {"model", "optimizer"}

\* the state initialize_train_state returns: step=0 is passed by the
\* DenoisingTrainer and is the default of BasicTrainState
CtNewState(variant) ==
    [step |-> 0, ema |-> variant = "Denoising"]

\* the constructor arguments each variant takes
CtArgs(variant) ==
    IF variant = "Denoising"
    THEN { [track_memory |-> tm, device |-> dev, use_mixed_precision |-> m,
            ema_decay |-> d] :
             tm \in BOOLEAN, dev \in {"cpu", "cuda"}, m \in BOOLEAN, d \in Decays }
    ELSE IF variant = "Basic"
    THEN { [track_memory |-> tm, device |-> dev] :
             tm \in BOOLEAN, dev \in {"cpu", "cuda"} }
    ELSE { [track_memory |-> FALSE, device |-> dev] : dev \in {"cpu", "cuda"} }

CtInit ==
    /\ ct_variant \in CtVariants
    /\ ct_args \in CtArgs(ct_variant)
    /\ ct_stack = << <<CtClass(ct_variant), 0>> >>
    /\ ct_fields = {}
    /\ ct_train_state = None
    /\ ct_init_calls = 0
    /\ ct_outcome = "none"

\* the frame on top, and the statement it is at
CtTop == ct_stack[Len(ct_stack)]

CtAtEnd == CtTop[2] = Len(CtBody(CtTop[1]))

CtStatement == CtBody(CtTop[1])[CtTop[2] + 1]

CtAdvanced == [ct_stack EXCEPT ![Len(ct_stack)] = <<CtTop[1], CtTop[2] + 1>>]

ctFrame == <<stepVars, loopVars, infVars, evalVars, dsVars, llVars, clVars>>

\* self.<field> = ...
CtAssign ==
    /\ ct_stack # <<>> /\ ~CtAtEnd
    /\ CtStatement.kind = "assign"
    /\ ct_fields' = ct_fields \cup {CtStatement.field}
    /\ ct_stack' = CtAdvanced
    /\ UNCHANGED <<ct_variant, ct_args, ct_train_state, ct_init_calls, ct_outcome,
                   ctFrame>>

\* super().__init__(...)
CtSuper ==
    /\ ct_stack # <<>> /\ ~CtAtEnd
    /\ CtStatement.kind = "super"
    /\ ct_stack' = Append(CtAdvanced, <<CtStatement.class, 0>>)
    /\ UNCHANGED <<ct_variant, ct_args, ct_fields, ct_train_state, ct_init_calls,
                   ct_outcome, ctFrame>>

\* self.train_state = self.initialize_train_state(): the variant's override
\* runs; reading an attribute not yet set raises AttributeError out of every
\* frame
CtInitializeTrainState ==
    /\ ct_stack # <<>> /\ ~CtAtEnd
    /\ CtStatement.kind = "init_state"
    /\ ct_init_calls' = ct_init_calls + 1
    /\ IF CtReads(ct_variant) \subseteq ct_fields
       THEN /\ ct_train_state' = CtNewState(ct_variant)
            /\ ct_fields' = ct_fields \cup {"train_state"}
            /\ ct_stack' = CtAdvanced
            /\ ct_outcome' = ct_outcome
       ELSE /\ ct_outcome' = "AttributeError"
            /\ ct_stack' = <<>>
            /\ UNCHANGED <<ct_train_state, ct_fields>>
    /\ UNCHANGED <<ct_variant, ct_args, ctFrame>>

\* an __init__ returns; the outermost one returning ends the construction
CtReturn ==
    /\ ct_stack # <<>> /\ CtAtEnd
    /\ ct_stack' = SubSeq(ct_stack, 1, Len(ct_stack) - 1)
    /\ ct_outcome' = IF Len(ct_stack) = 1 THEN "constructed" ELSE ct_outcome
    /\ UNCHANGED <<ct_variant, ct_args, ct_fields, ct_train_state, ct_init_calls,
                   ctFrame>>

CtNext ==
    \/ CtAssign
    \/ CtSuper
    \/ CtInitializeTrainState
    \/ CtReturn

CtSpecInit ==
    /\ CtInit
    /\ TrainerInit /\ ~use_mixed_precision /\ ema_decay = <<9, 10>>
    /\ DsIdle /\ LlIdle /\ ClIdle

SpecConstruct == CtSpecInit /\ [][CtNext]_vars

\* C12: constructing any of the three trainers calls initialize_train_state
\* once, never with an attribute it reads still unset, and ends with a
\* training state at step 0.
C12_ConstructionInitializesOnce ==
    /\ ct_init_calls <= 1
    /\ ct_outcome # "AttributeError"
    /\ (ct_variant # "none" /\ ct_stack = <<>>) =>
          /\ ct_outcome = "constructed"
          /\ ct_init_calls = 1
          /\ ct_train_state # None
          /\ ct_train_state.step = 0

====
